---- MODULE Spec2Model ----
(***************************************************************************)
(* Sales board of app/main.py: a ConnectionManager shared by the websocket *)
(* handler tasks (/ws/{client_id}) and the POST /sales tasks, all run by   *)
(* one asyncio event loop.  A step of the model is what one task does      *)
(* between two suspension points (await accept / send_text / receive_text).*)
(***************************************************************************)
EXTENDS Integers, Sequences, FiniteSets, TLC

\* ----- bounds of the model
NumChannels == 3        \* websocket objects
NumPosts == 1           \* POST /sales requests that may be made
WideChannels == 3       \* a wide execution opens up to 3 websockets ...
WideSales == 1          \* ... and records up to 1 sale
DeepChannels == 2       \* a deep execution opens up to 2 websockets ...
DeepSales == 2          \* ... and records up to 2 sales
MaxGone == 2            \* clients that go away on their own
NumGets == 1            \* GET /sales requests that may be made
NumSockets == 4         \* websocket objects of the direct calls of disconnect()

Channels == 1..NumChannels
Scopes == {[channels |-> WideChannels, sales |-> WideSales],
           [channels |-> DeepChannels, sales |-> DeepSales]}
Posts == 1..NumPosts
ClientIds == {7}                          \* client_id path parameter
Data == {"5 units", "3 units"}            \* text frames / Sale.message
Tokens == {"testuser", "bogus"}           \* bearer tokens presented

\* ----- main.py:15, main.py:135: the user database after start-up
fake_users_db == {"testuser"}

\* main.py:45-49
get_user(username) == IF username \in fake_users_db THEN username ELSE "None"

\* a dependency that lets every token through
get_current_user_never_raises(token) == FALSE

\* main.py:51-55: TRUE when get_current_user raises HTTPException(401)
get_current_user_raises(token) == get_user(token) = "None"

\* ----- formatting of the events (f-strings), as tuples of their parts
\* main.py:106
WsSaleText(client_id, data) == <<"Salesperson #", client_id, " reports a sale: ", data>>
\* main.py:129
PostSaleText(message) == <<"Salesperson reports a sale: ", message>>
\* main.py:115
LeftText(client_id) == <<"Salesperson #", client_id, " left the board.">>

\* ----- list operations of Python used by the manager
InList(s, x) == \E k \in 1..Len(s) : s[k] = x

FirstIndex(s, x) == CHOOSE k \in 1..Len(s) : s[k] = x /\ \A j \in 1..(k-1) : s[j] # x

\* a removal that drops the last element, whatever x is (list.pop())
ListRemovePop(s, x) == SubSeq(s, 1, Len(s) - 1)

\* list.remove(x) on a list that holds x: drops its first occurrence
ListRemove(s, x) ==
    LET k == FirstIndex(s, x)
    IN  [j \in 1..(Len(s)-1) |-> IF j < k THEN s[j] ELSE s[j+1]]

\* the for loop over a list: the iterator holds an index into the live list,
\* so after i elements were visited the next one is list[i+1] of the list as
\* it is now
HasNext(lst, i) == i < Len(lst)
NextItem(lst, i) == lst[i+1]

Range(s) == {s[k] : k \in 1..Len(s)}

VARIABLES
    active_connections,   \* manager.active_connections: sequence of channels
    sales_data,           \* manager.sales_data: sequence of event texts
    sales_data_db,        \* module-level sales_data_db
    ws,                   \* ws[c]: the handler task of websocket c
    post,                 \* post[p]: the task of POST /sales request p
    peer,                 \* peer[c]: the connection of websocket c: "none" before it
                          \* is opened, "open", "gone" once the client went away,
                          \* "closed" once the server closed it
    inbox,                \* inbox[c]: the frames send_text accepted for websocket c
    raised,               \* how the last direct call of disconnect() ended
    response,             \* the last response of GET /sales, and how many were made
    scope                 \* how many websockets and sales this execution may have:
                          \* drawn once from Scopes, so that executions with many
                          \* websockets and executions with many sales are both covered

vars == <<active_connections, sales_data, sales_data_db, ws, post, peer, inbox, raised,
          response, scope>>


\* ----- values
\* an event as it travels: its text and, to tell two events with the same
\* text apart, the position it was recorded at in sales_data (0 for a notice)
\* and the channel whose departure it announces (0 for a sale)
Msg(text, seq, who) == [text |-> text, seq |-> seq, who |-> who]
NoMsg == Msg(<<>>, 0, 0)

\* bookkeeping of one run of broadcast(): the registry when it started, the
\* channels disconnect() removed while it ran, the channels it sent to, the
\* channel whose send raised, and how it ended
NoBc == [msg |-> NoMsg, start |-> {}, gone |-> {}, sent |-> {}, fail |-> 0, res |-> "none"]

\* the whole state as one value, so that the steps of a handler compose
Cur == [ac |-> active_connections, sd |-> sales_data, db |-> sales_data_db,
        ws |-> ws, post |-> post, peer |-> peer, inbox |-> inbox]

Becomes(s) ==
    /\ active_connections' = s.ac
    /\ sales_data' = s.sd
    /\ sales_data_db' = s.db
    /\ ws' = s.ws
    /\ post' = s.post
    /\ peer' = s.peer
    /\ inbox' = s.inbox
    /\ UNCHANGED <<raised, response, scope>>

WsTask(c) == <<"ws", c>>
PostTask(p) == <<"post", p>>

TaskRec(s, t) == IF t[1] = "ws" THEN s.ws[t[2]] ELSE s.post[t[2]]

SetLoop(s, t, slot, b, i) ==
    IF t[1] = "ws"
    THEN [s EXCEPT !.ws[t[2]].bc[slot] = b, !.ws[t[2]].i = i]
    ELSE [s EXCEPT !.post[t[2]].bc[slot] = b, !.post[t[2]].i = i]

\* ----- websocket.send_text (main.py:78, main.py:83)
\* A send to a client that is still there succeeds.  Once the client end is
\* closed the outcome depends on the server stack: the frame is dropped
\* silently, or send_text raises WebSocketDisconnect, or another exception.
SendOutcomes(s, c) ==
    IF s.peer[c] = "open" THEN {"ok"} ELSE {"ok", "WebSocketDisconnect", "RuntimeError"}

Deliver(s, c, m, via) ==
    [s EXCEPT !.inbox[c] = Append(@, [text |-> m.text, seq |-> m.seq, who |-> m.who, via |-> via])]

\* ----- ConnectionManager.broadcast (main.py:76-78)
\* one turn of the loop, up to the next suspension: the set of [st, out] with
\* out = "await" (suspended in send_text), "return" (loop exhausted) or the
\* exception that send_text raised
BroadcastNext(s, t, slot) ==
    LET b == TaskRec(s, t).bc[slot]
        i == TaskRec(s, t).i
    IN  IF ~HasNext(s.ac, i)
        THEN {[st |-> SetLoop(s, t, slot, [b EXCEPT !.res = "done"], 0), out |-> "return"]}
        ELSE LET connection == NextItem(s.ac, i)
             IN  {[st |-> IF o = "ok"
                          THEN SetLoop(Deliver(s, connection, b.msg, "live"), t, slot,
                                       [b EXCEPT !.sent = @ \cup {connection}], i + 1)
                          ELSE SetLoop(s, t, slot,
                                       [b EXCEPT !.res = "failed", !.fail = connection], 0),
                   out |-> IF o = "ok" THEN "await" ELSE o]
                  : o \in SendOutcomes(s, connection)}

broadcast(s, t, slot, message) ==
    BroadcastNext(SetLoop(s, t, slot,
                          [msg |-> message, start |-> Range(s.ac), gone |-> {},
                           sent |-> {}, fail |-> 0, res |-> "running"], 0),
                  t, slot)

\* a replay that sends to the head of the registry instead of the newcomer
ReplayNextToHead(s, c) ==
    LET i == s.ws[c].i
    IN  IF ~HasNext(s.sd, i)
        THEN {[st |-> [s EXCEPT !.ws[c].i = 0], out |-> "return"]}
        ELSE {[st |-> [Deliver(s, s.ac[1], Msg(NextItem(s.sd, i), i + 1, 0), "replay")
                          EXCEPT !.ws[c].i = i + 1],
               out |-> "await"]}

\* ----- ConnectionManager.send_existing_sales (main.py:80-83)
ReplayNext(s, c) ==
    LET i == s.ws[c].i
    IN  IF ~HasNext(s.sd, i)
        THEN {[st |-> [s EXCEPT !.ws[c].i = 0], out |-> "return"]}
        ELSE {[st |-> IF o = "ok"
                      THEN [Deliver(s, c, Msg(NextItem(s.sd, i), i + 1, 0), "replay")
                               EXCEPT !.ws[c].i = i + 1]
                      ELSE [s EXCEPT !.ws[c].i = 0],
               out |-> IF o = "ok" THEN "await" ELSE o]
              : o \in SendOutcomes(s, c)}

\* a record_sale that puts the newest sale first
record_sale_skip(s, sale) == s

record_sale_twice(s, sale) ==
    [s EXCEPT !.sd = Append(Append(@, sale), sale), !.db = Append(Append(@, sale), sale)]

record_sale_first(s, sale) == [s EXCEPT !.sd = <<sale>> \o @, !.db = <<sale>> \o @]

\* ----- ConnectionManager.record_sale (main.py:85-88)
record_sale(s, sale) == [s EXCEPT !.sd = Append(@, sale), !.db = Append(@, sale)]

\* ----- ConnectionManager.disconnect (main.py:70-71)
\* list.remove raises ValueError when the websocket is not in the list
MarkGone(b, c) == IF b.res = "running" THEN [b EXCEPT !.gone = @ \cup {c}] ELSE b

disconnect(s, c) ==
    IF InList(s.ac, c)
    THEN [st |-> [s EXCEPT
                   !.ac = ListRemove(@, c),
                   !.ws = [d \in Channels |->
                            [s.ws[d] EXCEPT !.bc = [k \in DOMAIN @ |-> MarkGone(@[k], c)]]],
                   !.post = [p \in Posts |->
                            [s.post[p] EXCEPT !.bc = [k \in DOMAIN @ |-> MarkGone(@[k], c)]]]],
          out |-> "return"]
    ELSE [st |-> s, out |-> "ValueError"]

\* ----- websocket_endpoint (main.py:99-115)
\* the endpoint returns or raises: the server closes the websocket
EndHandler(s, c, how) ==
    [s EXCEPT !.ws[c].pc = how, !.peer[c] = IF @ = "gone" THEN @ ELSE "closed"]

\* an except clause that also records the notice it broadcasts
ExceptClauseRecords(s, c) ==
    LET d == disconnect(s, c)
    IN  IF d.out = "ValueError"
        THEN {EndHandler(d.st, c, "crashed")}
        ELSE {IF r.out = "await" THEN [r.st EXCEPT !.ws[c].pc = "leaving"]
              ELSE IF r.out = "return" THEN EndHandler(r.st, c, "closed")
              ELSE EndHandler(r.st, c, "crashed")
              : r \in broadcast(record_sale(d.st, LeftText(s.ws[c].client_id)),
                                WsTask(c), "leave",
                                Msg(LeftText(s.ws[c].client_id), 0, c))}

\* main.py:113-115: the except clause, up to its first suspension
ExceptClause(s, c) ==
    LET d == disconnect(s, c)
    IN  IF d.out = "ValueError"
        THEN {EndHandler(d.st, c, "crashed")}
        ELSE {IF r.out = "await" THEN [r.st EXCEPT !.ws[c].pc = "leaving"]
              ELSE IF r.out = "return" THEN EndHandler(r.st, c, "closed")
              ELSE EndHandler(r.st, c, "crashed")
              : r \in broadcast(d.st, WsTask(c), "leave",
                                Msg(LeftText(s.ws[c].client_id), 0, c))}

\* main.py:102-113: where the handler goes after a turn of broadcast() in the
\* try block; only WebSocketDisconnect is caught
InTry(rs, c) ==
    UNION {IF r.out = "await" THEN {[r.st EXCEPT !.ws[c].pc = "broadcast"]}
           ELSE IF r.out = "return" THEN {[r.st EXCEPT !.ws[c].pc = "receive"]}
           ELSE IF r.out = "WebSocketDisconnect" THEN ExceptClause(r.st, c)
           ELSE {EndHandler(r.st, c, "crashed")}
           : r \in rs}

\* main.py:101, main.py:63-68: connect() is awaited outside the try block, so
\* whatever the replay raises ends the handler
InConnect(rs, c) ==
    {IF r.out = "await" THEN [r.st EXCEPT !.ws[c].pc = "replay"]
     ELSE IF r.out = "return" THEN [r.st EXCEPT !.ws[c].pc = "receive"]
     ELSE EndHandler(r.st, c, "crashed")
     : r \in rs}

\* main.py:126-132: nothing is caught in create_sale
InPost(rs, p) ==
    {IF r.out = "await" THEN [r.st EXCEPT !.post[p].pc = "broadcast"]
     ELSE IF r.out = "return" THEN [r.st EXCEPT !.post[p].pc = "done"]
     ELSE [r.st EXCEPT !.post[p].pc = "crashed"]
     : r \in rs}

Init ==
    /\ active_connections = <<>>
    /\ sales_data = <<>>
    /\ sales_data_db = <<>>
    /\ ws = [c \in Channels |->
              [pc |-> "idle", client_id |-> 0, token |-> "", i |-> 0, joined |-> 0,
               bc |-> [sale |-> NoBc, leave |-> NoBc]]]
    /\ post = [p \in Posts |-> [pc |-> "idle", token |-> "", i |-> 0,
                                bc |-> [sale |-> NoBc]]]
    /\ peer = [c \in Channels |-> "none"]
    /\ inbox = [c \in Channels |-> <<>>]
    /\ raised = "not called"
    /\ response = [n |-> 0, body |-> <<>>]
    /\ scope \in Scopes

\* ----- the steps
\* a client opens /ws/{client_id}: the dependency get_current_user runs, then
\* connect() suspends in websocket.accept() (main.py:100-101, main.py:64)
WsOpen(c, client_id, token) ==
    /\ ws[c].pc = "idle"
    /\ c <= scope.channels
    /\ \A d \in Channels : d < c => ws[d].pc # "idle"
    /\ IF get_current_user_raises(token)
       THEN Becomes([Cur EXCEPT !.ws[c].pc = "rejected", !.ws[c].token = token,
                                !.peer[c] = "closed"])
       ELSE Becomes([Cur EXCEPT !.ws[c].pc = "accept", !.ws[c].client_id = client_id,
                                !.ws[c].token = token, !.peer[c] = "open"])

\* accept() returns: main.py:65-68 up to the first send of the replay
WsConnect(c) ==
    /\ ws[c].pc = "accept"
    /\ LET s == [Cur EXCEPT !.ac = Append(@, c), !.ws[c].joined = Len(sales_data),
                            !.ws[c].i = 0]
       IN  \E n \in (IF s.sd # <<>> THEN InConnect(ReplayNext(s, c), c)
                     ELSE {[s EXCEPT !.ws[c].pc = "receive"]}) : Becomes(n)

\* a send of the replay returns: the next turn of main.py:82-83
WsReplay(c) ==
    /\ ws[c].pc = "replay"
    /\ \E n \in InConnect(ReplayNext(Cur, c), c) : Becomes(n)

\* receive_text() returns a frame: main.py:104-112 up to the first send
WsReceive(c, data) ==
    /\ ws[c].pc = "receive"
    /\ peer[c] = "open"
    /\ Len(sales_data) < scope.sales
    /\ LET text == WsSaleText(ws[c].client_id, data)
           s == record_sale(Cur, text)
       IN  \E n \in InTry(broadcast(s, WsTask(c), "sale", Msg(text, Len(s.sd), 0)), c) :
               Becomes(n)

\* a send of the broadcast returns: the next turn of main.py:77-78
WsBroadcast(c) ==
    /\ ws[c].pc = "broadcast"
    /\ \E n \in InTry(BroadcastNext(Cur, WsTask(c), "sale"), c) : Becomes(n)

\* receive_text() raises WebSocketDisconnect: main.py:113-115
WsDisconnect(c) ==
    /\ ws[c].pc = "receive"
    /\ peer[c] = "gone"
    /\ \E n \in ExceptClause(Cur, c) : Becomes(n)

\* a send of the departure broadcast returns (main.py:115)
WsLeave(c) ==
    /\ ws[c].pc = "leaving"
    /\ \E r \in BroadcastNext(Cur, WsTask(c), "leave") :
          Becomes(IF r.out = "await" THEN r.st
                  ELSE IF r.out = "return" THEN EndHandler(r.st, c, "closed")
                  ELSE EndHandler(r.st, c, "crashed"))

\* the client goes away
PeerClose(c) ==
    /\ peer[c] = "open"
    /\ Cardinality({d \in Channels : peer[d] = "gone"}) < MaxGone
    /\ Becomes([Cur EXCEPT !.peer[c] = "gone"])

\* POST /sales: main.py:126-131 up to the first send
PostSale(p, message, token) ==
    /\ post[p].pc = "idle"
    /\ \A q \in Posts : q < p => post[q].pc # "idle"
    /\ IF get_current_user_raises(token)
       THEN Becomes([Cur EXCEPT !.post[p].pc = "rejected", !.post[p].token = token])
       ELSE /\ Len(sales_data) < scope.sales
            /\ LET text == PostSaleText(message)
                   s == record_sale([Cur EXCEPT !.post[p].token = token], text)
               IN  \E n \in InPost(broadcast(s, PostTask(p), "sale",
                                             Msg(text, Len(s.sd), 0)), p) : Becomes(n)

\* a handler that answers with all but the newest sale
get_sales_stale(s) == SubSeq(s.sd, 1, Len(s.sd) - 1)

\* main.py:121-124
get_sales(s) == s.sd

\* GET /sales (main.py:121-124): no dependency, no suspension
GetSales ==
    /\ response.n < NumGets
    /\ response' = [n |-> response.n + 1, body |-> get_sales(Cur)]
    /\ UNCHANGED <<active_connections, sales_data, sales_data_db, ws, post, peer, inbox,
                   raised, scope>>

\* a send of the broadcast of create_sale returns
PostBroadcast(p) ==
    /\ post[p].pc = "broadcast"
    /\ \E n \in InPost(BroadcastNext(Cur, PostTask(p), "sale"), p) : Becomes(n)

Next ==
    \/ \E c \in Channels, client_id \in ClientIds, token \in Tokens : WsOpen(c, client_id, token)
    \/ \E c \in Channels : WsConnect(c)
    \/ \E c \in Channels : WsReplay(c)
    \/ \E c \in Channels, data \in Data : WsReceive(c, data)
    \/ \E c \in Channels : WsBroadcast(c)
    \/ \E c \in Channels : WsDisconnect(c)
    \/ \E c \in Channels : WsLeave(c)
    \/ \E c \in Channels : PeerClose(c)
    \/ \E p \in Posts, message \in Data, token \in Tokens : PostSale(p, message, token)
    \/ \E p \in Posts : PostBroadcast(p)
    \/ GetSales

Spec == Init /\ [][Next]_vars

\* ----- ConnectionManager.disconnect called directly, on any registry
WebSockets == 1..NumSockets

\* the lists active_connections can be: no websocket is appended twice
Registries ==
    {r \in UNION {[1..n -> WebSockets] : n \in 0..NumSockets} :
        \A j, k \in 1..Len(r) : j # k => r[j] # r[k]}

InitDisconnect ==
    /\ active_connections \in Registries
    /\ sales_data = <<>>
    /\ sales_data_db = <<>>
    /\ ws = [c \in Channels |->
              [pc |-> "idle", client_id |-> 0, token |-> "", i |-> 0, joined |-> 0,
               bc |-> [sale |-> NoBc, leave |-> NoBc]]]
    /\ post = [p \in Posts |-> [pc |-> "idle", token |-> "", i |-> 0,
                                bc |-> [sale |-> NoBc]]]
    /\ peer = [c \in Channels |-> "none"]
    /\ inbox = [c \in Channels |-> <<>>]
    /\ raised = "not called"
    /\ response = [n |-> 0, body |-> <<>>]
    /\ scope = [channels |-> WideChannels, sales |-> WideSales]

CallDisconnect(w) ==
    LET d == disconnect(Cur, w)
    IN  /\ active_connections' = d.st.ac
        /\ raised' = d.out
        /\ UNCHANGED <<sales_data, sales_data_db, ws, post, peer, inbox, response, scope>>

NextDisconnect == \E w \in WebSockets : CallDisconnect(w)

SpecDisconnect == InitDisconnect /\ [][NextDisconnect]_vars

\* ----- properties
Registered(c) == InList(active_connections, c)

\* entry k of inbox[c] is a sale that a broadcast delivered
LiveSale(c, k) == inbox[c][k].via = "live" /\ inbox[c][k].seq > 0

\* C1 (P1, order): every registered channel has received the sales that were
\* broadcast to it in the order in which they were appended to sales_data,
\* and no two registered channels have received two sales in opposite orders.
P1_Order ==
    /\ \A c \in Channels : Registered(c) =>
          \A j, k \in 1..Len(inbox[c]) :
              (j < k /\ LiveSale(c, j) /\ LiveSale(c, k)) => inbox[c][j].seq < inbox[c][k].seq
    /\ \A c, d \in Channels : (Registered(c) /\ Registered(d)) =>
          \A j, k \in 1..Len(inbox[c]) : \A m, n \in 1..Len(inbox[d]) :
              (j < k /\ m < n /\ LiveSale(c, j) /\ LiveSale(c, k)
                 /\ LiveSale(d, m) /\ LiveSale(d, n)
                 /\ inbox[c][j].seq = inbox[d][n].seq /\ inbox[c][k].seq = inbox[d][m].seq)
              => inbox[c][j].seq = inbox[c][k].seq

\* the runs of broadcast() the state remembers: the last sale broadcast of
\* each task and the departure broadcast of each handler
Runs ==
    {ws[c].bc.sale : c \in Channels} \cup {ws[c].bc.leave : c \in Channels}
        \cup {post[p].bc.sale : p \in Posts}

Ended(b) == b.res \in {"done", "failed"}

\* the channels a run of broadcast() owes its message: registered when it
\* started and not deregistered while it ran
Owed(b) == b.start \ b.gone

HasSeq(c, n) == \E k \in 1..Len(inbox[c]) : inbox[c][k].seq = n

\* connect() has returned for c and c has not left since
Joined(c) == ws[c].pc \in {"receive", "broadcast"}

\* the sales recorded before c joined have been replayed to c, in the order
\* of sales_data
HistoryReplayed(c) ==
    /\ \A n \in 1..ws[c].joined :
           \E k \in 1..Len(inbox[c]) : inbox[c][k].via = "replay" /\ inbox[c][k].seq = n
    /\ \A j, k \in 1..Len(inbox[c]) :
           (j < k /\ inbox[c][j].via = "replay" /\ inbox[c][k].via = "replay")
           => inbox[c][j].seq < inbox[c][k].seq

\* no sale recorded after c joined, and whose broadcast is over, is lost to c
NoneLostSinceJoin(c) ==
    \A b \in Runs :
        (Ended(b) /\ b.msg.seq > ws[c].joined /\ c \in Owed(b)) => HasSeq(c, b.msg.seq)

\* the history half of P2 alone
HistoryReplayedToJoined ==
    \A c \in Channels : (Joined(c) /\ peer[c] = "open") => HistoryReplayed(c)

\* C2 (P2, replay completeness): a channel whose connect() has returned has
\* been replayed the sales recorded before it joined, in the order of
\* sales_data, and has received every sale recorded after it joined whose
\* broadcast is over.
P2_ReplayComplete ==
    \A c \in Channels : (Joined(c) /\ peer[c] = "open") =>
        HistoryReplayed(c) /\ NoneLostSinceJoin(c)

\* C3 (P4, isolation of failure): when a send of a broadcast failed, every
\* other channel registered for that broadcast, and whose client is there,
\* has been sent the message.
P4_FailureIsolated ==
    \A b \in Runs : b.res = "failed" =>
        \A d \in Owed(b) \ {b.fail} : peer[d] = "open" => d \in b.sent

\* the no-self-notification half of P3 alone
NoticeNeverToSelf ==
    \A c \in Channels : \A k \in 1..Len(inbox[c]) : inbox[c][k].who # c

\* C4 (P3, no self-notification): the departure notice of channel c is never
\* in c's inbox, and once the departure broadcast is over every channel
\* registered for it, and whose client is there, has been sent the notice.
P3_NoSelfNotice ==
    /\ NoticeNeverToSelf
    /\ \A c \in Channels : Ended(ws[c].bc.leave) =>
          \A d \in Owed(ws[c].bc.leave) : peer[d] = "open" => d \in ws[c].bc.leave.sent

\* C5 (P5, idempotent deregistration): a call of disconnect() for a websocket
\* that is not in active_connections does not raise.
P5_DisconnectNeverRaises == raised # "ValueError"

\* C6: once the broadcast of a recorded sale is over, every channel that was
\* registered when the sale was appended, and is still registered and open,
\* has been sent the sale.
RecordedIsBroadcast ==
    \A b \in Runs : (Ended(b) /\ b.msg.seq > 0) =>
        \A c \in Owed(b) : (Registered(c) /\ peer[c] = "open") => c \in b.sent

\* C7: a broadcast that ran to its end has skipped no channel that was
\* registered when it started and stayed registered.
BroadcastSkipsNone ==
    \A b \in Runs : b.res = "done" => Owed(b) \subseteq b.sent

\* disconnect(c) has run
Departed(c) == ws[c].bc.leave.res # "none"

\* C8: once disconnect() has removed a channel, nothing more is sent to it,
\* not even by a broadcast that was running when it was removed.
NoSendAfterRemoval ==
    [][\A c \in Channels : Departed(c) => inbox'[c] = inbox[c]]_vars

\* a broadcast was running when disconnect() removed c, c had not had its
\* turn, and the broadcast has since run to its end
RemovedMidBroadcast ==
    \E c \in Channels : \E b \in Runs :
        Departed(c) /\ c \in b.start /\ c \in b.gone /\ c \notin b.sent /\ b.res = "done"

\* C9: the handler of a channel that has closed has started the departure
\* broadcast for it.
DepartureOnClose ==
    \A c \in Channels : ws[c].pc \in {"closed", "crashed"} => Departed(c)

\* C10: no channel is sent the same recorded sale twice.
AtMostOnce ==
    \A c \in Channels : \A j, k \in 1..Len(inbox[c]) :
        (j < k /\ inbox[c][j].seq > 0) => inbox[c][j].seq # inbox[c][k].seq

\* ----- authentication
Manager == <<active_connections, sales_data, sales_data_db, inbox>>

\* C11: a request to POST /sales or /ws/{client_id} whose token names no user
\* is rejected, and the step that rejects it leaves sales_data,
\* active_connections and every inbox as they were.
RejectedBeforeManager ==
    [][/\ \A p \in Posts :
            (post[p].pc = "idle" /\ post'[p].pc # "idle"
               /\ post'[p].token \notin fake_users_db)
            => (post'[p].pc = "rejected" /\ UNCHANGED Manager)
       /\ \A c \in Channels :
            (ws[c].pc = "idle" /\ ws'[c].pc # "idle" /\ ws'[c].token \notin fake_users_db)
            => (ws'[c].pc = "rejected" /\ UNCHANGED Manager)]_vars

\* a POST and a websocket were both rejected, on a board that has a channel
SomeRejected ==
    /\ \E p \in Posts : post[p].pc = "rejected" /\ post[p].token \notin fake_users_db
    /\ \E c \in Channels : ws[c].pc = "rejected" /\ ws[c].token \notin fake_users_db
    /\ active_connections # <<>>

\* ----- the query endpoint
\* C12: GET /sales answers with the whole of sales_data, in its order, and
\* the query changes neither sales_data nor active_connections, sends nothing
\* and moves no handler.
QueryReturnsLog ==
    [][response' # response =>
         /\ response'.body = sales_data
         /\ UNCHANGED <<active_connections, sales_data, sales_data_db, inbox, ws, post, peer>>
      ]_vars

\* a query was answered with two different recorded sales
QueriedTwoSales ==
    /\ response.n > 0
    /\ Len(response.body) = 2
    /\ response.body[1] # response.body[2]
    /\ response.body = sales_data

\* ----- the history log
IsPrefix(a, b) == Len(a) <= Len(b) /\ SubSeq(b, 1, Len(a)) = a

\* C13: sales_data is append-only: in every step the log before is a prefix of
\* the log after.
AppendOnly == [][IsPrefix(sales_data, sales_data')]_vars

\* two different sales are in the log
TwoSalesRecorded == Len(sales_data) = 2 /\ sales_data[1] # sales_data[2]

\* ----- connect
IsReplay(e) == e.via = "replay"

\* the texts replayed to c, in the order they were sent
ReplayTexts(c) ==
    LET r == SelectSeq(inbox[c], IsReplay) IN [k \in 1..Len(r) |-> r[k].text]

\* the handler of c is inside connect()
Connecting(c) == ws[c].pc \in {"accept", "replay"}

\* C14: a step of connect() for channel c sends to c alone, c is in
\* active_connections whenever a replayed sale is sent to it, and when
\* connect() returns c has been replayed the whole of sales_data in its order.
ConnectReplaysToNewcomer ==
    [][\A c \in Channels : (Connecting(c) /\ ws'[c] # ws[c]) =>
          /\ \A d \in Channels \ {c} : inbox'[d] = inbox[d]
          /\ inbox'[c] # inbox[c] =>
                (Registered(c)' /\ inbox'[c][Len(inbox'[c])].via = "replay")
          /\ ws'[c].pc = "receive" => ReplayTexts(c)' = sales_data'
      ]_vars

\* connect() has returned for a channel that was replayed a sale while another
\* channel was registered before it
ReplayedNextToOthers ==
    \E c \in Channels :
        /\ ws[c].pc = "receive"
        /\ Len(ReplayTexts(c)) >= 1
        /\ Len(active_connections) >= 2
        /\ active_connections[1] # c

\* ----- the registry
\* the runs of broadcast() before and after a step, slot by slot
RunSteps ==
    {<<ws[c].bc.sale, ws'[c].bc.sale>> : c \in Channels}
        \cup {<<ws[c].bc.leave, ws'[c].bc.leave>> : c \in Channels}
        \cup {<<post[p].bc.sale, post'[p].bc.sale>> : p \in Posts}

\* the channels a step of a run sent to
NewlySent(r) ==
    IF r[2].res # "running" THEN {}
    ELSE IF r[1].res = "running" THEN r[2].sent \ r[1].sent
    ELSE r[2].sent

\* active_connections changes only by the append of connect() and the removal
\* of disconnect()
RegistryStep ==
    active_connections' # active_connections =>
        \/ \E c \in Channels :
              ws[c].pc = "accept" /\ active_connections' = Append(active_connections, c)
        \/ \E c \in Channels :
              /\ ~Departed(c) /\ Departed(c)'
              /\ Registered(c) /\ ~Registered(c)'
              /\ Range(active_connections') = Range(active_connections) \ {c}

\* the order of active_connections is the order of registration
InsertionOrdered ==
    \A j, k \in 1..Len(active_connections) : \A m, n \in 1..Len(active_connections') :
        (j < k /\ active_connections[j] = active_connections'[m]
               /\ active_connections[k] = active_connections'[n]) => m < n

RegistryMutatedByConnectDisconnect == [][RegistryStep /\ InsertionOrdered]_vars

\* of two channels that one run of broadcast() sent to, the one registered
\* earlier was sent to first
SentInRegistryOrder ==
    [][\A r \in RunSteps : \A x \in NewlySent(r) :
          \A y \in r[1].sent \cap Range(active_connections') :
              r[1].res = "running" =>
                  FirstIndex(active_connections', y) < FirstIndex(active_connections', x)
      ]_vars

\* C15: active_connections keeps the order of registration and changes only
\* by connect and disconnect, and when a broadcast sends to a channel it has
\* already sent to every channel registered before that one (and registered
\* when the broadcast started).
BroadcastInRegistryOrder ==
    [][/\ RegistryStep
       /\ InsertionOrdered
       /\ \A r \in RunSteps : \A x \in NewlySent(r) :
             \A y \in r[2].start \cap Range(active_connections') :
                 FirstIndex(active_connections', y) < FirstIndex(active_connections', x)
                 => y \in r[2].sent
      ]_vars

\* ----- record_sale
SaleTexts == {WsSaleText(id, d) : id \in ClientIds, d \in Data}
                 \cup {PostSaleText(d) : d \in Data}

\* C16: in every reachable state, record_sale(sale) puts exactly one entry,
\* sale, at the end of sales_data (and of its copy sales_data_db) and changes
\* nothing else: no inbox gets a frame, active_connections is the same, and
\* no handler or peer moves.
RecordSaleOnlyAppends ==
    \A sale \in SaleTexts :
        LET n == record_sale(Cur, sale)
        IN  /\ n.sd = Append(sales_data, sale)
            /\ n.db = Append(sales_data_db, sale)
            /\ Len(n.sd) = Len(sales_data) + 1
            /\ n.inbox = inbox
            /\ n.ac = active_connections
            /\ n.ws = ws /\ n.post = post /\ n.peer = peer

\* a sale was recorded after another one while websockets were registered
RecordedWithRegistry ==
    /\ Len(sales_data) = 2
    /\ sales_data[2] \in SaleTexts
    /\ Len(active_connections) = 2
    /\ \E c \in Channels : Registered(c) /\ Len(inbox[c]) >= 2

\* ----- writers of the log
NoticeTexts == {LeftText(id) : id \in ClientIds}

\* the step is the handling of a frame a websocket client sent (main.py:104-112)
IsWsIngress ==
    \E c \in Channels :
        /\ ws[c].pc = "receive" /\ peer[c] = "open"
        /\ ws'[c].bc.sale.msg.text = sales_data'[Len(sales_data')]
        /\ \E d \in Data : sales_data'[Len(sales_data')] = WsSaleText(ws[c].client_id, d)

\* the step is the handling of POST /sales/ (main.py:126-132)
IsPostIngress ==
    \E p \in Posts :
        /\ post[p].pc = "idle" /\ post'[p].pc \notin {"idle", "rejected"}
        /\ \E d \in Data : sales_data'[Len(sales_data')] = PostSaleText(d)

\* C17: sales_data changes only in the step that handles a frame of a
\* websocket client or a POST /sales/, and then by one entry; the steps of
\* connect, of the replay, of a broadcast, of disconnect and of the departure
\* broadcast leave it as it is. No departure notice is in sales_data and none
\* is ever replayed.
LogWrittenOnIngressOnly ==
    [][/\ sales_data' # sales_data =>
             /\ Len(sales_data') = Len(sales_data) + 1
             /\ IsWsIngress \/ IsPostIngress
       /\ \A k \in 1..Len(sales_data') : sales_data'[k] \notin NoticeTexts
       /\ \A c \in Channels : \A k \in 1..Len(inbox'[c]) :
             inbox'[c][k].via = "replay" =>
                 (inbox'[c][k].who = 0 /\ inbox'[c][k].text \notin NoticeTexts)
      ]_vars

\* a departure notice was delivered, and a websocket that registered after
\* that broadcast had started has been replayed the log
JoinedAfterDeparture ==
    \E c, d, e \in Channels :
        /\ Departed(c) /\ e \in ws[c].bc.leave.sent
        /\ \E k \in 1..Len(inbox[e]) : inbox[e][k].who = c
        /\ d \notin ws[c].bc.leave.start /\ d # c
        /\ ws[d].pc = "receive" /\ Len(ReplayTexts(d)) >= 1

\* ----- who is deregistered
\* C18: a websocket leaves active_connections, and its departure notice is
\* broadcast, only in a step where its own client is gone and its handler was
\* waiting in receive_text; a failure of a send to another websocket never
\* deregisters a websocket whose client is still there.
DeregisteredOnlyWhenClosed ==
    [][\A c \in Channels :
          ((Registered(c) /\ ~Registered(c)') \/ (~Departed(c) /\ Departed(c)'))
          => (peer[c] = "gone" /\ ws[c].pc = "receive")
      ]_vars

\* C19: a websocket whose handler has ended is no longer in
\* active_connections. An ended handler takes no further step and nothing
\* else removes its websocket, so a state that breaks this keeps the websocket
\* registered for ever: the finite form of "every channel that closes is
\* eventually removed".
EndedIsDeregistered ==
    \A c \in Channels : ws[c].pc \in {"closed", "crashed"} => ~Registered(c)

\* ----- record before broadcast
\* the sales that live broadcasts have delivered
LiveSales ==
    {e \in UNION {Range(inbox[c]) : c \in Channels} : e.via = "live" /\ e.who = 0}

\* C20: in every reachable state a sale that some websocket was sent by a
\* live broadcast is in sales_data, at the position the broadcast was given;
\* and a websocket whose connect() has returned and that registered when the
\* sale was already recorded has been replayed that sale.
RecordPrecedesBroadcast ==
    \A e \in LiveSales :
        /\ e.seq \in 1..Len(sales_data)
        /\ sales_data[e.seq] = e.text
        /\ \A d \in Channels :
              (Joined(d) /\ peer[d] = "open" /\ ws[d].joined >= e.seq)
              => \E k \in 1..Len(inbox[d]) :
                    /\ inbox[d][k].via = "replay"
                    /\ inbox[d][k].seq = e.seq
                    /\ inbox[d][k].text = e.text

\* a sale delivered live to one websocket has been replayed to a websocket
\* that registered after that broadcast had started
LiveThenReplayed ==
    \E e \in LiveSales : \E b \in Runs : \E d \in Channels :
        /\ b.msg.seq = e.seq /\ b.res # "none" /\ d \notin b.start
        /\ Joined(d) /\ peer[d] = "open"
        /\ \E k \in 1..Len(inbox[d]) : inbox[d][k].via = "replay" /\ inbox[d][k].seq = e.seq

====
